---- MODULE Spec2Model ----
(***************************************************************************)
(* Model of the Piezo buzzer component (src/src/main.py): configuration    *)
(* (validate_config, reconfigure), sound_buzzer, play_harry_potter and     *)
(* do_command, driving a board's GPIO pin through PWM calls.               *)
(*                                                                         *)
(* Numbers are fixed-point tenths: 5 is 0.5, 15 is 1.5, 6220 is 622.       *)
(* A Python value is a record [k, v]: k = "num" for an int/float of v      *)
(* tenths, k = "none" for a value that is no number, k = "missing" for a   *)
(* key that the argument mapping does not hold.                            *)
(***************************************************************************)
EXTENDS Integers, Sequences, FiniteSets, TLC

VARIABLES
    pin,        \* self.pin: the stored pin name, "None" when piezo_pin was absent
    board,      \* self.board: "b1" (a Board), "NonBoard" (another resource) or "None"
    lastConfig, \* how the last configuration attempt ended
    attempt,    \* the piezo_pin attribute reconfigure last received
    configs,    \* number of configuration attempts made after construction
    pwm,        \* the board's pins: pin name -> [freq, duty] last written
    pc,         \* per task: where the coroutine is suspended
    top,        \* per task: the operation the host invoked
    op,         \* per task: the buzzer operation running or just ended
    args,       \* per task: sound_buzzer's frequency, duration, duty_cycle
    gpio_pin,   \* per task: the pin handle gpio_pin_by_name returned, "" when none
    note,       \* per task: index of the melody note being played
    seen,       \* per task: self.pin and self.board as the operation read them
    issued,     \* per task: the hardware calls and sleeps of the current operation
    ret,        \* per task: what sound_buzzer returned
    errlog,     \* per task: what play_harry_potter passed to logger.error
    command,    \* per task: the entries of do_command's mapping still to process
    result,     \* per task: do_command's result mapping
    calls       \* number of invocations the host has made

vars == <<pin, board, lastConfig, attempt, configs, pwm, pc, top, op, args,
          gpio_pin, note, seen, issued, ret, errlog, command, result, calls>>

cfgVars == <<pin, board, lastConfig, attempt, configs>>
taskVars == <<pc, top, op, args, gpio_pin, note, seen, issued, ret, errlog, command, result>>

----------------------------------------------------------------------------
(* Bounds of the model *)

MaxCalls == 2
MaxConfigs == 1
MaxCommandLen == 2

Tasks == {1, 2}
SerialTasks == {1}

----------------------------------------------------------------------------
(* Python values *)

Num(v) == [k |-> "num", v |-> v]
NoneVal == [k |-> "none", v |-> 0]
Missing == [k |-> "missing", v |-> 0]

\* isinstance(x, (int, float))
IsNumber(x) == x.k = "num"

\* int(x): truncation toward zero of a number of tenths, in whole units
int(x) == IF x >= 0 THEN x \div 10 ELSE -((-x) \div 10)

\* dict.get(key, default)
Get(x, default) == IF x.k = "missing" THEN default ELSE x

----------------------------------------------------------------------------
(* Configuration *)

DigitStrings == {"12"}

\* str.isdigit() over the strings the model draws pin names from
isdigit(s) == s \in DigitStrings

PinAttrs ==
    {[kind |-> "absent", s |-> ""], [kind |-> "number", s |-> "12"]}
    \cup {[kind |-> "string", s |-> x] : x \in DigitStrings \cup {"12a", ""}}

BoardAttrs ==
    {[kind |-> "absent", s |-> ""], [kind |-> "number", s |-> "1"],
     [kind |-> "string", s |-> "b1"], [kind |-> "string", s |-> "b2"]}

\* what dependencies.get(Board.get_resource_name("b1")) may hold
Dependencies == {"Board", "NonBoard", "Missing"}

validate_config(a) ==
    IF a.piezo_pin.kind # "absent"
         /\ (a.piezo_pin.kind # "string" \/ ~isdigit(a.piezo_pin.s))
      THEN "InvalidConfig"
    ELSE IF a.board.kind # "absent" /\ a.board.kind # "string"
      THEN "InvalidConfig"
    ELSE "ok"

\* attrs.get("piezo_pin")
AttrPin(a) == IF a.piezo_pin.kind = "absent" THEN "None" ELSE a.piezo_pin.s

\* dependencies.get(Board.get_resource_name(attrs.get("board")))
Resolve(a, dep) ==
    IF a.board.kind = "string" /\ a.board.s = "b1"
      THEN CASE dep = "Board" -> "b1"
             [] dep = "NonBoard" -> "NonBoard"
             [] OTHER -> "None"
      ELSE "None"

\* isinstance(self.board, Board)
IsBoard(b) == b = "b1"

\* Mutant: the configuration is stored only once the board has resolved.
reconfigureKeepOnFailure(a, dep) ==
    IF IsBoard(Resolve(a, dep))
      THEN /\ pin' = AttrPin(a)
           /\ board' = Resolve(a, dep)
           /\ lastConfig' = "ready"
      ELSE /\ UNCHANGED <<pin, board>>
           /\ lastConfig' = "DependencyUnresolved"

reconfigure(a, dep) ==
    /\ pin' = AttrPin(a)
    /\ board' = Resolve(a, dep)
    /\ lastConfig' = IF IsBoard(Resolve(a, dep)) THEN "ready"
                     ELSE "DependencyUnresolved"

\* One configuration attempt of the host: validate_config, then reconfigure
\* when validation passed.
Configure ==
    /\ configs < MaxConfigs
    /\ configs' = configs + 1
    /\ \E a \in [piezo_pin : PinAttrs, board : BoardAttrs], dep \in Dependencies :
         IF validate_config(a) # "ok"
           THEN /\ lastConfig' = "InvalidConfig"
                /\ UNCHANGED <<pin, board, attempt>>
           ELSE /\ attempt' = AttrPin(a)
                /\ reconfigure(a, dep)
    /\ UNCHANGED <<pwm, calls>>
    /\ UNCHANGED taskVars

----------------------------------------------------------------------------
(* The board: gpio_pin_by_name, set_pwm_frequency, set_pwm; asyncio.sleep *)

PinNames == DigitStrings \cup {"None"}

Ev(o, p, a, ok) == [op |-> o, pin |-> p, arg |-> a, ok |-> ok]

\* The pin after a call that succeeded; a call that raised changed nothing.
WriteFreq(p, hz) == [pwm EXCEPT ![p].freq = hz]
WriteDuty(p, d) == [pwm EXCEPT ![p].duty = d]

----------------------------------------------------------------------------
(* Strings the component returns or logs *)

Success == "Buzzer sounded successfully."
ErrFrequency == "Error in sound_buzzer: Frequency must be a positive number."
ErrDuration == "Error in sound_buzzer: Duration must be a positive number."
ErrDutyCycle == "Error in sound_buzzer: Duty cycle must be between 0 and 1."
ErrNoBoard == "Error in sound_buzzer: object has no attribute 'gpio_pin_by_name'"
ErrHardware == "Error in sound_buzzer: board call failed"
LogNoBoard == "Error in play_harry_potter: object has no attribute 'gpio_pin_by_name'"
LogHardware == "Error in play_harry_potter: board call failed"

SoundErrors == {ErrFrequency, ErrDuration, ErrDutyCycle, ErrNoBoard, ErrHardware}

NoArgs == [frequency |-> Missing, duration |-> Missing, duty_cycle |-> Missing]
NoSeen == [pin |-> "", board |-> ""]

\* where an operation goes when it returns: back into do_command, or to the host
Fin(t) == IF top[t] = "do_command" THEN "returned" ELSE "done"

----------------------------------------------------------------------------
(* sound_buzzer *)

\* Mutant: the duration is checked before the frequency.
ValidationErrorDurationFirst(f, d, dc) ==
    IF ~IsNumber(d) THEN ErrDuration
    ELSE IF d.v <= 0 THEN ErrDuration
    ELSE IF ~IsNumber(f) THEN ErrFrequency
    ELSE IF f.v <= 0 THEN ErrFrequency
    ELSE IF ~IsNumber(dc) THEN ErrDutyCycle
    ELSE IF ~(0 <= dc.v /\ dc.v <= 10) THEN ErrDutyCycle
    ELSE "ok"

\* The three checks that open sound_buzzer, in the order of the code.
ValidationError(f, d, dc) ==
    IF ~IsNumber(f) THEN ErrFrequency
    ELSE IF f.v <= 0 THEN ErrFrequency
    ELSE IF ~IsNumber(d) THEN ErrDuration
    ELSE IF d.v <= 0 THEN ErrDuration
    ELSE IF ~IsNumber(dc) THEN ErrDutyCycle
    ELSE IF ~(0 <= dc.v /\ dc.v <= 10) THEN ErrDutyCycle
    ELSE "ok"

\* sound_buzzer from its entry to the return of gpio_pin_by_name: the checks,
\* the read of self.board and self.pin, the pin lookup (which the board fails
\* when ~ok). fin is where the task goes if sound_buzzer returns here.
SoundBuzzerBegin(t, f, d, dc, ok, fin) ==
    /\ op' = [op EXCEPT ![t] = "sound_buzzer"]
    /\ args' = [args EXCEPT ![t] = [frequency |-> f, duration |-> d, duty_cycle |-> dc]]
    /\ seen' = [seen EXCEPT ![t] = [pin |-> pin, board |-> board]]
    /\ IF ValidationError(f, d, dc) # "ok"
         THEN /\ ret' = [ret EXCEPT ![t] = ValidationError(f, d, dc)]
              /\ issued' = [issued EXCEPT ![t] = <<>>]
              /\ gpio_pin' = [gpio_pin EXCEPT ![t] = ""]
              /\ pc' = [pc EXCEPT ![t] = fin]
       ELSE IF ~IsBoard(board)
         THEN /\ ret' = [ret EXCEPT ![t] = ErrNoBoard]
              /\ issued' = [issued EXCEPT ![t] = <<>>]
              /\ gpio_pin' = [gpio_pin EXCEPT ![t] = ""]
              /\ pc' = [pc EXCEPT ![t] = fin]
       ELSE IF ~ok
         THEN /\ ret' = [ret EXCEPT ![t] = ErrHardware]
              /\ issued' = [issued EXCEPT ![t] = <<Ev("gpio_pin_by_name", pin, 0, FALSE)>>]
              /\ gpio_pin' = [gpio_pin EXCEPT ![t] = ""]
              /\ pc' = [pc EXCEPT ![t] = fin]
       ELSE /\ ret' = [ret EXCEPT ![t] = ""]
            /\ issued' = [issued EXCEPT ![t] = <<Ev("gpio_pin_by_name", pin, 0, TRUE)>>]
            /\ gpio_pin' = [gpio_pin EXCEPT ![t] = pin]
            /\ pc' = [pc EXCEPT ![t] = "set_pwm_frequency"]
    /\ UNCHANGED <<note, errlog, pwm>>

\* await gpio_pin.set_pwm_frequency(frequency), frequency = int(frequency)
SetPwmFrequency(t, ok) ==
    /\ pc[t] = "set_pwm_frequency"
    /\ issued' = [issued EXCEPT ![t] =
           Append(@, Ev("set_pwm_frequency", gpio_pin[t], int(args[t].frequency.v), ok))]
    /\ IF ok
         THEN /\ pwm' = WriteFreq(gpio_pin[t], int(args[t].frequency.v))
              /\ pc' = [pc EXCEPT ![t] = "set_pwm"]
              /\ UNCHANGED ret
         ELSE /\ ret' = [ret EXCEPT ![t] = ErrHardware]
              /\ pc' = [pc EXCEPT ![t] = Fin(t)]
              /\ UNCHANGED pwm
    /\ UNCHANGED <<top, op, args, gpio_pin, note, seen, errlog, command, result, calls>>
    /\ UNCHANGED cfgVars

\* Mutant: a failure of set_pwm is swallowed and the operation goes on.
SetPwmIgnoringFailure(t, ok) ==
    /\ pc[t] = "set_pwm"
    /\ issued' = [issued EXCEPT ![t] =
           Append(@, Ev("set_pwm", gpio_pin[t], args[t].duty_cycle.v, ok))]
    /\ pwm' = IF ok THEN WriteDuty(gpio_pin[t], args[t].duty_cycle.v) ELSE pwm
    /\ pc' = [pc EXCEPT ![t] = "sleep"]
    /\ UNCHANGED <<top, op, args, gpio_pin, note, seen, ret, errlog, command, result, calls>>
    /\ UNCHANGED cfgVars

\* Mutant: the tone is started only while no other task holds a tone.
SetPwmExclusive(t, ok) ==
    /\ pc[t] = "set_pwm"
    /\ \A u \in Tasks \ {t} : pc[u] \notin {"sleep", "set_pwm_off", "note_sleep", "note_off"}
    /\ issued' = [issued EXCEPT ![t] =
           Append(@, Ev("set_pwm", gpio_pin[t], args[t].duty_cycle.v, ok))]
    /\ IF ok
         THEN /\ pwm' = WriteDuty(gpio_pin[t], args[t].duty_cycle.v)
              /\ pc' = [pc EXCEPT ![t] = "sleep"]
              /\ UNCHANGED ret
         ELSE /\ ret' = [ret EXCEPT ![t] = ErrHardware]
              /\ pc' = [pc EXCEPT ![t] = Fin(t)]
              /\ UNCHANGED pwm
    /\ UNCHANGED <<top, op, args, gpio_pin, note, seen, errlog, command, result, calls>>
    /\ UNCHANGED cfgVars

\* await gpio_pin.set_pwm(duty_cycle)
SetPwm(t, ok) ==
    /\ pc[t] = "set_pwm"
    /\ issued' = [issued EXCEPT ![t] =
           Append(@, Ev("set_pwm", gpio_pin[t], args[t].duty_cycle.v, ok))]
    /\ IF ok
         THEN /\ pwm' = WriteDuty(gpio_pin[t], args[t].duty_cycle.v)
              /\ pc' = [pc EXCEPT ![t] = "sleep"]
              /\ UNCHANGED ret
         ELSE /\ ret' = [ret EXCEPT ![t] = ErrHardware]
              /\ pc' = [pc EXCEPT ![t] = Fin(t)]
              /\ UNCHANGED pwm
    /\ UNCHANGED <<top, op, args, gpio_pin, note, seen, errlog, command, result, calls>>
    /\ UNCHANGED cfgVars

\* await asyncio.sleep(duration)
Sleep(t) ==
    /\ pc[t] = "sleep"
    /\ issued' = [issued EXCEPT ![t] =
           Append(@, Ev("sleep", gpio_pin[t], args[t].duration.v, TRUE))]
    /\ pc' = [pc EXCEPT ![t] = "set_pwm_off"]
    /\ UNCHANGED <<top, op, args, gpio_pin, note, seen, ret, errlog, command, result, calls, pwm>>
    /\ UNCHANGED cfgVars

\* Mutant: sound_buzzer returns after the wait without turning the tone off.
SetPwmOffMissing(t, ok) ==
    /\ pc[t] = "set_pwm_off"
    /\ ret' = [ret EXCEPT ![t] = Success]
    /\ pc' = [pc EXCEPT ![t] = Fin(t)]
    /\ UNCHANGED <<top, op, args, gpio_pin, note, seen, issued, errlog, command, result,
                   calls, pwm>>
    /\ UNCHANGED cfgVars

\* await gpio_pin.set_pwm(0.0); return "Buzzer sounded successfully."
SetPwmOff(t, ok) ==
    /\ pc[t] = "set_pwm_off"
    /\ issued' = [issued EXCEPT ![t] = Append(@, Ev("set_pwm", gpio_pin[t], 0, ok))]
    /\ IF ok
         THEN /\ pwm' = WriteDuty(gpio_pin[t], 0)
              /\ ret' = [ret EXCEPT ![t] = Success]
         ELSE /\ ret' = [ret EXCEPT ![t] = ErrHardware]
              /\ UNCHANGED pwm
    /\ pc' = [pc EXCEPT ![t] = Fin(t)]
    /\ UNCHANGED <<top, op, args, gpio_pin, note, seen, errlog, command, result, calls>>
    /\ UNCHANGED cfgVars

----------------------------------------------------------------------------
(* play_harry_potter *)

melody ==
    <<6220, 7400, 7840, 7400, 6220, 7840, 7400, 6220, 7400, 7840, 6220, 7400,
      6220, 5870, 6220, 6590, 7400, 6220, 7400, 7840, 6220, 5870>>

rhythm ==
    <<4, 4, 4, 4, 4, 4, 8, 4, 4, 4, 4, 4, 4, 4, 4, 8, 4, 4, 4, 4, 4, 8>>

\* zip(melody, rhythm) stops with the shorter table
Notes == IF Len(melody) <= Len(rhythm) THEN Len(melody) ELSE Len(rhythm)

\* play_harry_potter from its entry to the return of gpio_pin_by_name
PlayBegin(t, ok, fin) ==
    /\ op' = [op EXCEPT ![t] = "play_harry_potter"]
    /\ args' = [args EXCEPT ![t] = NoArgs]
    /\ seen' = [seen EXCEPT ![t] = [pin |-> pin, board |-> board]]
    /\ ret' = [ret EXCEPT ![t] = ""]
    /\ IF ~IsBoard(board)
         THEN /\ errlog' = [errlog EXCEPT ![t] = LogNoBoard]
              /\ issued' = [issued EXCEPT ![t] = <<>>]
              /\ gpio_pin' = [gpio_pin EXCEPT ![t] = ""]
              /\ pc' = [pc EXCEPT ![t] = fin]
              /\ UNCHANGED note
       ELSE IF ~ok
         THEN /\ errlog' = [errlog EXCEPT ![t] = LogHardware]
              /\ issued' = [issued EXCEPT ![t] = <<Ev("gpio_pin_by_name", pin, 0, FALSE)>>]
              /\ gpio_pin' = [gpio_pin EXCEPT ![t] = ""]
              /\ pc' = [pc EXCEPT ![t] = fin]
              /\ UNCHANGED note
       ELSE /\ errlog' = [errlog EXCEPT ![t] = ""]
            /\ issued' = [issued EXCEPT ![t] = <<Ev("gpio_pin_by_name", pin, 0, TRUE)>>]
            /\ gpio_pin' = [gpio_pin EXCEPT ![t] = pin]
            /\ note' = [note EXCEPT ![t] = 1]
            /\ pc' = [pc EXCEPT ![t] = IF Notes >= 1 THEN "note_frequency" ELSE fin]
    /\ UNCHANGED pwm

\* await gpio_pin.set_pwm_frequency(int(frequency))
NoteFrequency(t, ok) ==
    /\ pc[t] = "note_frequency"
    /\ issued' = [issued EXCEPT ![t] =
           Append(@, Ev("set_pwm_frequency", gpio_pin[t], int(melody[note[t]]), ok))]
    /\ IF ok
         THEN /\ pwm' = WriteFreq(gpio_pin[t], int(melody[note[t]]))
              /\ pc' = [pc EXCEPT ![t] = "note_pwm"]
              /\ UNCHANGED errlog
         ELSE /\ errlog' = [errlog EXCEPT ![t] = LogHardware]
              /\ pc' = [pc EXCEPT ![t] = Fin(t)]
              /\ UNCHANGED pwm
    /\ UNCHANGED <<top, op, args, gpio_pin, note, seen, ret, command, result, calls>>
    /\ UNCHANGED cfgVars

\* await gpio_pin.set_pwm(0.5)
NotePwm(t, ok) ==
    /\ pc[t] = "note_pwm"
    /\ issued' = [issued EXCEPT ![t] = Append(@, Ev("set_pwm", gpio_pin[t], 5, ok))]
    /\ IF ok
         THEN /\ pwm' = WriteDuty(gpio_pin[t], 5)
              /\ pc' = [pc EXCEPT ![t] = "note_sleep"]
              /\ UNCHANGED errlog
         ELSE /\ errlog' = [errlog EXCEPT ![t] = LogHardware]
              /\ pc' = [pc EXCEPT ![t] = Fin(t)]
              /\ UNCHANGED pwm
    /\ UNCHANGED <<top, op, args, gpio_pin, note, seen, ret, command, result, calls>>
    /\ UNCHANGED cfgVars

\* await asyncio.sleep(duration)
NoteSleep(t) ==
    /\ pc[t] = "note_sleep"
    /\ issued' = [issued EXCEPT ![t] =
           Append(@, Ev("sleep", gpio_pin[t], rhythm[note[t]], TRUE))]
    /\ pc' = [pc EXCEPT ![t] = "note_off"]
    /\ UNCHANGED <<top, op, args, gpio_pin, note, seen, ret, errlog, command, result, calls, pwm>>
    /\ UNCHANGED cfgVars

\* Mutant: the pause between notes writes the duty cycle of the note again.
NoteOffWrongDuty(t, ok) ==
    /\ pc[t] = "note_off"
    /\ issued' = [issued EXCEPT ![t] = Append(@, Ev("set_pwm", gpio_pin[t], 5, ok))]
    /\ IF ok
         THEN /\ pwm' = WriteDuty(gpio_pin[t], 5)
              /\ pc' = [pc EXCEPT ![t] = "note_gap"]
              /\ UNCHANGED errlog
         ELSE /\ errlog' = [errlog EXCEPT ![t] = LogHardware]
              /\ pc' = [pc EXCEPT ![t] = Fin(t)]
              /\ UNCHANGED pwm
    /\ UNCHANGED <<top, op, args, gpio_pin, note, seen, ret, command, result, calls>>
    /\ UNCHANGED cfgVars

\* await gpio_pin.set_pwm(0.0)
NoteOff(t, ok) ==
    /\ pc[t] = "note_off"
    /\ issued' = [issued EXCEPT ![t] = Append(@, Ev("set_pwm", gpio_pin[t], 0, ok))]
    /\ IF ok
         THEN /\ pwm' = WriteDuty(gpio_pin[t], 0)
              /\ pc' = [pc EXCEPT ![t] = "note_gap"]
              /\ UNCHANGED errlog
         ELSE /\ errlog' = [errlog EXCEPT ![t] = LogHardware]
              /\ pc' = [pc EXCEPT ![t] = Fin(t)]
              /\ UNCHANGED pwm
    /\ UNCHANGED <<top, op, args, gpio_pin, note, seen, ret, command, result, calls>>
    /\ UNCHANGED cfgVars

\* Mutant: the loop stops one note short.
NoteGapOneShort(t) ==
    /\ pc[t] = "note_gap"
    /\ issued' = [issued EXCEPT ![t] = Append(@, Ev("sleep", gpio_pin[t], 1, TRUE))]
    /\ IF note[t] < Notes - 1
         THEN /\ note' = [note EXCEPT ![t] = @ + 1]
              /\ pc' = [pc EXCEPT ![t] = "note_frequency"]
         ELSE /\ pc' = [pc EXCEPT ![t] = Fin(t)]
              /\ UNCHANGED note
    /\ UNCHANGED <<top, op, args, gpio_pin, seen, ret, errlog, command, result, calls, pwm>>
    /\ UNCHANGED cfgVars

\* await asyncio.sleep(0.1), then the next note, or the end of the loop
NoteGap(t) ==
    /\ pc[t] = "note_gap"
    /\ issued' = [issued EXCEPT ![t] = Append(@, Ev("sleep", gpio_pin[t], 1, TRUE))]
    /\ IF note[t] < Notes
         THEN /\ note' = [note EXCEPT ![t] = @ + 1]
              /\ pc' = [pc EXCEPT ![t] = "note_frequency"]
         ELSE /\ pc' = [pc EXCEPT ![t] = Fin(t)]
              /\ UNCHANGED note
    /\ UNCHANGED <<top, op, args, gpio_pin, seen, ret, errlog, command, result, calls, pwm>>
    /\ UNCHANGED cfgVars

----------------------------------------------------------------------------
(* do_command *)

Entry(n, m, f, d, dc) ==
    [name |-> n, mapping |-> m, frequency |-> f, duration |-> d, duty_cycle |-> dc]

\* The entries a command mapping is drawn from: sound_buzzer with argument
\* mappings that omit keys, hold a bad frequency or a duty cycle that is no
\* number, or with arguments that are no mapping at all; the melody; a name
\* the component does not know.
Entries ==
    {Entry("sound_buzzer", TRUE, Missing, Missing, Missing),
     Entry("sound_buzzer", TRUE, Num(-5), Missing, Missing),
     Entry("sound_buzzer", TRUE, Num(15), Num(1), NoneVal),
     Entry("sound_buzzer", TRUE, Num(15), Num(1), Num(10)),
     Entry("sound_buzzer", FALSE, Missing, Missing, Missing),
     Entry("play_harry_potter", TRUE, Missing, Missing, Missing),
     Entry("foo", TRUE, Missing, Missing, Missing)}

\* command.items(): the keys of a mapping are distinct
Commands ==
    {c \in UNION {[1..n -> Entries] : n \in 1..MaxCommandLen} :
        \A i, j \in DOMAIN c : i # j => c[i].name # c[j].name}

R(text, a) ==
    [text |-> text, frequency |-> a.frequency, duration |-> a.duration,
     percent |-> a.duty_cycle]

\* f"Buzzer activated: {frequency}Hz for {duration}s with {duty_cycle*100}% duty cycle."
\* None * 100 raises, which do_command's except turns into "Error: ..."
Activated(a) ==
    IF IsNumber(a.duty_cycle)
      THEN R("Buzzer activated", [a EXCEPT !.duty_cycle = Num(a.duty_cycle.v * 100)])
      ELSE R("Error: unsupported operand", NoArgs)

\* What do_command records once the awaited sound_buzzer has returned: the
\* value sound_buzzer returned is dropped.
RecordSound(t) == Activated(args[t])

Put(r, n, v) == [k \in DOMAIN r \cup {n} |-> IF k = n THEN v ELSE r[k]]

\* The head of the loop over command.items(): the next entry, up to the first
\* await inside it, or the return of the result.
Dispatch(t, ok) ==
    /\ pc[t] = "dispatch"
    /\ IF command[t] = <<>>
         THEN /\ pc' = [pc EXCEPT ![t] = "done"]
              /\ UNCHANGED <<op, args, gpio_pin, note, seen, issued, ret, errlog,
                             command, result, pwm>>
       ELSE IF Head(command[t]).name = "sound_buzzer"
         THEN IF ~Head(command[t]).mapping
                THEN /\ result' = [result EXCEPT ![t] =
                            Put(@, "sound_buzzer", R("Error: no attribute 'get'", NoArgs))]
                     /\ command' = [command EXCEPT ![t] = Tail(@)]
                     /\ UNCHANGED <<pc, op, args, gpio_pin, note, seen, issued, ret,
                                    errlog, pwm>>
                ELSE /\ SoundBuzzerBegin(t, Get(Head(command[t]).frequency, Num(10000)),
                                            Get(Head(command[t]).duration, Num(10)),
                                            Get(Head(command[t]).duty_cycle, Num(5)),
                                            ok, "returned")
                     /\ UNCHANGED <<command, result>>
       ELSE IF Head(command[t]).name = "play_harry_potter"
         THEN /\ PlayBegin(t, ok, "returned")
              /\ UNCHANGED <<command, result>>
       ELSE /\ result' = [result EXCEPT ![t] =
                   Put(@, Head(command[t]).name,
                       R("Unknown command: " \o Head(command[t]).name, NoArgs))]
            /\ command' = [command EXCEPT ![t] = Tail(@)]
            /\ UNCHANGED <<pc, op, args, gpio_pin, note, seen, issued, ret, errlog, pwm>>
    /\ UNCHANGED <<top, calls>>
    /\ UNCHANGED cfgVars

\* After the awaited operation has returned: record its entry's result.
Record(t) ==
    /\ pc[t] = "returned"
    /\ result' = [result EXCEPT ![t] =
           IF op[t] = "sound_buzzer"
             THEN Put(@, "sound_buzzer", RecordSound(t))
             ELSE Put(@, "play_harry_potter", R("Played Harry Potter theme song.", NoArgs))]
    /\ command' = [command EXCEPT ![t] = Tail(@)]
    /\ pc' = [pc EXCEPT ![t] = "dispatch"]
    /\ UNCHANGED <<top, op, args, gpio_pin, note, seen, issued, ret, errlog, calls, pwm>>
    /\ UNCHANGED cfgVars

----------------------------------------------------------------------------
(* The host: the calls it makes and the inputs it passes *)

Frequencies == {NoneVal, Num(-5), Num(0), Num(5), Num(15)}
Durations == {NoneVal, Num(0), Num(1)}
DutyCycles == {NoneVal, Num(-1), Num(0), Num(5), Num(10), Num(11)}

CallSoundBuzzer(t, F, D, DC, Oks) ==
    /\ pc[t] = "idle"
    /\ calls < MaxCalls
    /\ \E f \in F, d \in D, dc \in DC, ok \in Oks :
         SoundBuzzerBegin(t, f, d, dc, ok, "done")
    /\ top' = [top EXCEPT ![t] = "sound_buzzer"]
    /\ calls' = calls + 1
    /\ UNCHANGED <<command, result>>
    /\ UNCHANGED cfgVars

CallPlayHarryPotter(t, Oks) ==
    /\ pc[t] = "idle"
    /\ calls < MaxCalls
    /\ \E ok \in Oks : PlayBegin(t, ok, "done")
    /\ top' = [top EXCEPT ![t] = "play_harry_potter"]
    /\ calls' = calls + 1
    /\ UNCHANGED <<command, result>>
    /\ UNCHANGED cfgVars

CallDoCommand(t) ==
    /\ pc[t] = "idle"
    /\ calls < MaxCalls
    /\ \E c \in Commands : command' = [command EXCEPT ![t] = c]
    /\ result' = [result EXCEPT ![t] = <<>>]
    /\ top' = [top EXCEPT ![t] = "do_command"]
    /\ pc' = [pc EXCEPT ![t] = "dispatch"]
    /\ calls' = calls + 1
    /\ UNCHANGED <<op, args, gpio_pin, note, seen, issued, ret, errlog, pwm>>
    /\ UNCHANGED cfgVars

\* The host takes the value the call returned; the task is free again.
Return(t) ==
    /\ pc[t] = "done"
    /\ pc' = [pc EXCEPT ![t] = "idle"]
    /\ top' = [top EXCEPT ![t] = "none"]
    /\ op' = [op EXCEPT ![t] = "none"]
    /\ args' = [args EXCEPT ![t] = NoArgs]
    /\ gpio_pin' = [gpio_pin EXCEPT ![t] = ""]
    /\ note' = [note EXCEPT ![t] = 0]
    /\ seen' = [seen EXCEPT ![t] = NoSeen]
    /\ issued' = [issued EXCEPT ![t] = <<>>]
    /\ ret' = [ret EXCEPT ![t] = ""]
    /\ errlog' = [errlog EXCEPT ![t] = ""]
    /\ command' = [command EXCEPT ![t] = <<>>]
    /\ result' = [result EXCEPT ![t] = <<>>]
    /\ UNCHANGED <<calls, pwm>>
    /\ UNCHANGED cfgVars

----------------------------------------------------------------------------
(* Specifications *)

\* After construction: new() ran reconfigure with attributes that passed
\* validate_config and a board that resolved; the pins are silent.
Init ==
    /\ pin \in PinNames
    /\ board = "b1"
    /\ lastConfig = "ready"
    /\ attempt = pin
    /\ configs = 0
    /\ pwm = [p \in PinNames |-> [freq |-> 0, duty |-> 0]]
    /\ pc = [t \in Tasks |-> "idle"]
    /\ top = [t \in Tasks |-> "none"]
    /\ op = [t \in Tasks |-> "none"]
    /\ args = [t \in Tasks |-> NoArgs]
    /\ gpio_pin = [t \in Tasks |-> ""]
    /\ note = [t \in Tasks |-> 0]
    /\ seen = [t \in Tasks |-> NoSeen]
    /\ issued = [t \in Tasks |-> <<>>]
    /\ ret = [t \in Tasks |-> ""]
    /\ errlog = [t \in Tasks |-> ""]
    /\ command = [t \in Tasks |-> <<>>]
    /\ result = [t \in Tasks |-> <<>>]
    /\ calls = 0

\* One caller at a time, every input, a board whose calls may fail.
Next ==
    \/ Configure
    \/ \E t \in SerialTasks :
         \/ CallSoundBuzzer(t, Frequencies, Durations, DutyCycles, BOOLEAN)
         \/ CallPlayHarryPotter(t, BOOLEAN)
         \/ \E ok \in BOOLEAN : SetPwmFrequency(t, ok)
         \/ \E ok \in BOOLEAN : SetPwm(t, ok)
         \/ Sleep(t)
         \/ \E ok \in BOOLEAN : SetPwmOff(t, ok)
         \/ \E ok \in BOOLEAN : NoteFrequency(t, ok)
         \/ \E ok \in BOOLEAN : NotePwm(t, ok)
         \/ NoteSleep(t)
         \/ \E ok \in BOOLEAN : NoteOff(t, ok)
         \/ NoteGap(t)
         \/ Return(t)

Spec == Init /\ [][Next]_vars

\* One caller at a time, through do_command.
NextCmd ==
    \E t \in SerialTasks :
       \/ CallDoCommand(t)
       \/ \E ok \in BOOLEAN : Dispatch(t, ok)
       \/ Record(t)
       \/ \E ok \in BOOLEAN : SetPwmFrequency(t, ok)
       \/ \E ok \in BOOLEAN : SetPwm(t, ok)
       \/ Sleep(t)
       \/ \E ok \in BOOLEAN : SetPwmOff(t, ok)
       \/ \E ok \in BOOLEAN : NoteFrequency(t, ok)
       \/ \E ok \in BOOLEAN : NotePwm(t, ok)
       \/ NoteSleep(t)
       \/ \E ok \in BOOLEAN : NoteOff(t, ok)
       \/ NoteGap(t)
       \/ Return(t)

SpecCmd == Init /\ [][NextCmd]_vars

\* Callers that overlap, on a board whose calls never fail.
ConcFrequencies == {Num(0), Num(15)}
ConcDurations == {Num(1)}
ConcDutyCycles == {Num(0), Num(10)}

NextConc ==
    \E t \in Tasks :
       \/ CallSoundBuzzer(t, ConcFrequencies, ConcDurations, ConcDutyCycles, {TRUE})
       \/ CallPlayHarryPotter(t, {TRUE})
       \/ SetPwmFrequency(t, TRUE)
       \/ SetPwm(t, TRUE)
       \/ Sleep(t)
       \/ SetPwmOff(t, TRUE)
       \/ NoteFrequency(t, TRUE)
       \/ NotePwm(t, TRUE)
       \/ NoteSleep(t)
       \/ NoteOff(t, TRUE)
       \/ NoteGap(t)
       \/ Return(t)

SpecConc == Init /\ [][NextConc]_vars

----------------------------------------------------------------------------
(* What the properties below speak about *)

\* the operation of task t has returned (to do_command or to the host)
OpEnded(t) == op[t] # "none" /\ pc[t] \in {"done", "returned", "dispatch"}

\* a hardware call of the operation of task t raised
Failed(t) == \E i \in DOMAIN issued[t] : ~issued[t][i].ok

\* the set_pwm_frequency and set_pwm calls of the operation of task t that
\* the board carried out
PwmCalls(t) ==
    {i \in DOMAIN issued[t] :
        issued[t][i].op \in {"set_pwm_frequency", "set_pwm"} /\ issued[t][i].ok}

\* the operation of task t read a digit-only pin name and a Board
ReadConfigured(t) == seen[t].pin \in DigitStrings /\ seen[t].board = "b1"

IsPrefix(s, e) == Len(s) <= Len(e) /\ \A i \in 1..Len(s) : s[i] = e[i]

\* a number of tenths truncated toward zero to whole units, for x >= 0
Trunc(x) == (x - (x % 10)) \div 10

Positive(x) == IF x.k = "num" THEN x.v > 0 ELSE FALSE
NotPositive(x) == IF x.k = "num" THEN x.v <= 0 ELSE FALSE
InUnit(x) == IF x.k = "num" THEN 0 <= x.v /\ x.v <= 10 ELSE FALSE
OutsideUnit(x) == IF x.k = "num" THEN x.v < 0 \/ x.v > 10 ELSE FALSE

ValidArgs(a) == Positive(a.frequency) /\ Positive(a.duration) /\ InUnit(a.duty_cycle)

Rejected(t, msg) == OpEnded(t) /\ ret[t] = msg /\ issued[t] = <<>>

----------------------------------------------------------------------------
\* C1: a sound_buzzer call with frequency <= 0, else duration <= 0, else a
\* duty cycle outside [0, 1] returns the error naming that constraint (in this
\* order) and issues no pin lookup, no PWM call and no wait.
C1_InvalidArgumentsRejected ==
    \A t \in Tasks :
       op[t] = "sound_buzzer" =>
          /\ NotPositive(args[t].frequency) => Rejected(t, ErrFrequency)
          /\ Positive(args[t].frequency) /\ NotPositive(args[t].duration)
                => Rejected(t, ErrDuration)
          /\ Positive(args[t].frequency) /\ Positive(args[t].duration)
                /\ OutsideUnit(args[t].duty_cycle)
                => Rejected(t, ErrDutyCycle)

\* C1 witness: frequency and duration both violated, "Frequency" reported
C1_Witness ==
    \E t \in Tasks :
       /\ op[t] = "sound_buzzer"
       /\ NotPositive(args[t].frequency) /\ NotPositive(args[t].duration)
       /\ OutsideUnit(args[t].duty_cycle)
       /\ pc[t] = "done" /\ ret[t] = ErrFrequency
       /\ IsBoard(board) /\ pin \in DigitStrings

ExpectedSound(p, a) ==
    <<Ev("gpio_pin_by_name", p, 0, TRUE),
      Ev("set_pwm_frequency", p, Trunc(a.frequency.v), TRUE),
      Ev("set_pwm", p, a.duty_cycle.v, TRUE),
      Ev("sleep", p, a.duration.v, TRUE),
      Ev("set_pwm", p, 0, TRUE)>>

\* C2: a sound_buzzer call with valid arguments on a configured driver whose
\* board does not fail issues exactly: pin lookup by the stored pin,
\* set_pwm_frequency(int(frequency)), set_pwm(duty_cycle), the wait of
\* duration, set_pwm(0), in this order, and then returns
\* "Buzzer sounded successfully."
C2_SoundSequence ==
    \A t \in Tasks :
       (op[t] = "sound_buzzer" /\ ValidArgs(args[t]) /\ ReadConfigured(t) /\ ~Failed(t)) =>
          /\ IsPrefix(issued[t], ExpectedSound(seen[t].pin, args[t]))
          /\ OpEnded(t) => /\ issued[t] = ExpectedSound(seen[t].pin, args[t])
                            /\ ret[t] = Success
          /\ ~OpEnded(t) => ret[t] = ""

\* C2 witness: a call with a non-integer frequency has run to its return
C2_Witness ==
    \E t \in Tasks :
       /\ op[t] = "sound_buzzer" /\ pc[t] = "done"
       /\ args[t].frequency = Num(15) /\ args[t].duty_cycle = Num(10)
       /\ ReadConfigured(t) /\ ret[t] = Success /\ Len(issued[t]) = 5

ExpectedMelody(p) ==
    [k \in 1..(1 + 5 * 22) |->
        IF k = 1 THEN Ev("gpio_pin_by_name", p, 0, TRUE)
        ELSE LET i == ((k - 2) \div 5) + 1
                 s == (k - 2) % 5
             IN  CASE s = 0 -> Ev("set_pwm_frequency", p, Trunc(melody[i]), TRUE)
                   [] s = 1 -> Ev("set_pwm", p, 5, TRUE)
                   [] s = 2 -> Ev("sleep", p, rhythm[i], TRUE)
                   [] s = 3 -> Ev("set_pwm", p, 0, TRUE)
                   [] OTHER -> Ev("sleep", p, 1, TRUE)]

\* C3: play_harry_potter on a configured driver whose board does not fail
\* issues, after the pin lookup, exactly 22 note cycles in the order of the
\* melody and rhythm tables, cycle i being set_pwm_frequency(melody[i]),
\* set_pwm(0.5), wait(rhythm[i]), set_pwm(0), wait(0.1), and then ends.
C3_MelodySequence ==
    \A t \in Tasks :
       (op[t] = "play_harry_potter" /\ ReadConfigured(t) /\ ~Failed(t)) =>
          /\ IsPrefix(issued[t], ExpectedMelody(seen[t].pin))
          /\ OpEnded(t) => /\ issued[t] = ExpectedMelody(seen[t].pin)
                            /\ errlog[t] = ""

\* C3 witness: the melody has been played to its end
C3_Witness ==
    \E t \in Tasks :
       /\ op[t] = "play_harry_potter" /\ pc[t] = "done"
       /\ ReadConfigured(t) /\ ~Failed(t)
       /\ Len(issued[t]) = 111 /\ issued[t][107].arg = 587

IsErrorText(x) ==
    x \in SoundErrors \cup {"Error: unsupported operand", "Error: no attribute 'get'"}

\* C4 (as claimed): once do_command has recorded its "sound_buzzer" entry, the
\* recorded value is an error message whenever the sound_buzzer call failed,
\* and the formatted success string only when sound_buzzer returned success.
C4_CommandRecordsFailure ==
    \A t \in Tasks :
       (top[t] = "do_command" /\ op[t] = "sound_buzzer" /\ pc[t] \in {"dispatch", "done"}
          /\ "sound_buzzer" \in DOMAIN result[t]) =>
          /\ ret[t] # Success => IsErrorText(result[t]["sound_buzzer"].text)
          /\ result[t]["sound_buzzer"].text = "Buzzer activated" => ret[t] = Success

\* C5 (as claimed): an operation that read a pin name that is not a non-empty
\* digit-only string, or a board that is no Board, has no PWM call carried out
\* and ends with an error (sound_buzzer) or a logged error (play_harry_potter).
C5_FailFastWhenUnconfigured ==
    \A t \in Tasks :
       (op[t] # "none" /\ ~ReadConfigured(t)) =>
          /\ PwmCalls(t) = {}
          /\ OpEnded(t) => IF op[t] = "sound_buzzer" THEN ret[t] \in SoundErrors
                            ELSE errlog[t] # ""

\* C6: when a hardware call of sound_buzzer or play_harry_potter fails, it is
\* the last hardware call or wait of the operation (no set_pwm(0) rollback,
\* no further note), the operation has ended, sound_buzzer has returned an
\* error message and play_harry_potter has logged one; when the failing call
\* is the one that turns the tone off, the pin keeps the duty cycle the
\* operation wrote last.
C6_FailureEndsOperation ==
    \A t \in SerialTasks :
       Failed(t) =>
          /\ \A i \in DOMAIN issued[t] : ~issued[t][i].ok => i = Len(issued[t])
          /\ OpEnded(t)
          /\ op[t] = "sound_buzzer" => ret[t] = ErrHardware /\ errlog[t] = ""
          /\ op[t] = "play_harry_potter" => errlog[t] = LogHardware /\ ret[t] = ""
          /\ (op[t] = "sound_buzzer" /\ Len(issued[t]) = 5)
                => pwm[seen[t].pin].duty = args[t].duty_cycle.v
          /\ (op[t] = "play_harry_potter" /\ issued[t][Len(issued[t])].arg = 0
                /\ issued[t][Len(issued[t])].op = "set_pwm")
                => pwm[seen[t].pin].duty = 5

\* C6 witness: set_pwm(0) of sound_buzzer failed and the tone is left on
C6_Witness ==
    \E t \in SerialTasks :
       /\ op[t] = "sound_buzzer" /\ pc[t] = "done"
       /\ Len(issued[t]) = 5 /\ ~issued[t][5].ok
       /\ issued[t][3].ok /\ issued[t][3].arg = 10
       /\ pwm[seen[t].pin].duty = 10
       /\ ret[t] = ErrHardware

\* C8 (as claimed): the frequency sound_buzzer passes to set_pwm_frequency is
\* the requested one truncated toward zero and is at least 1.
C8_FrequencyPositive ==
    \A t \in Tasks :
       op[t] = "sound_buzzer" =>
          \A i \in DOMAIN issued[t] :
             issued[t][i].op = "set_pwm_frequency" =>
                /\ issued[t][i].arg = Trunc(args[t].frequency.v)
                /\ issued[t][i].arg >= 1

\* C9 (as claimed): a configuration attempt on a ready driver that fails with
\* DependencyUnresolved leaves self.pin and self.board as they were.
C9_FailedReconfigureKeepsConfig ==
    [][(IsBoard(board) /\ configs' = configs + 1
          /\ lastConfig' = "DependencyUnresolved")
         => (pin' = pin /\ board' = board)]_vars

\* C9 (amended): after a configuration attempt that failed with
\* DependencyUnresolved, self.pin holds the piezo_pin of that attempt and
\* self.board is no Board; an operation that reads this configuration issues
\* no hardware call and ends with an error.
C9_FailedReconfigureOverwrites ==
    /\ lastConfig = "DependencyUnresolved" => ~IsBoard(board) /\ pin = attempt
    /\ lastConfig = "ready" => IsBoard(board) /\ pin = attempt
    /\ \A t \in Tasks :
          (op[t] # "none" /\ seen[t].board # "b1") =>
             /\ issued[t] = <<>>
             /\ OpEnded(t)
             /\ IF op[t] = "sound_buzzer" THEN ret[t] \in SoundErrors
                ELSE errlog[t] = LogNoBoard

\* C9 witness: a driver built ready, then a failed attempt, then a call with
\* valid arguments that ends with the missing-board error
C9_Witness ==
    /\ lastConfig = "DependencyUnresolved" /\ configs = 1
    /\ board = "None" /\ pin = "None"
    /\ \E t \in Tasks :
          /\ op[t] = "sound_buzzer" /\ pc[t] = "done"
          /\ ValidArgs(args[t]) /\ seen[t].board = "None"
          /\ ret[t] = ErrNoBoard

\* C7: no invocation is held back by another one: whatever the other tasks
\* are doing, the next PWM call or wait of a running operation can be taken,
\* and each operation issues its own calls in its program order.
C7_NoMutualExclusion ==
    \A t \in Tasks :
       /\ pc[t] = "set_pwm_frequency" => ENABLED SetPwmFrequency(t, TRUE)
       /\ pc[t] = "set_pwm" => ENABLED SetPwm(t, TRUE)
       /\ pc[t] = "sleep" => ENABLED Sleep(t)
       /\ pc[t] = "set_pwm_off" => ENABLED SetPwmOff(t, TRUE)
       /\ pc[t] = "note_frequency" => ENABLED NoteFrequency(t, TRUE)
       /\ pc[t] = "note_pwm" => ENABLED NotePwm(t, TRUE)
       /\ pc[t] = "note_sleep" => ENABLED NoteSleep(t)
       /\ pc[t] = "note_off" => ENABLED NoteOff(t, TRUE)
       /\ pc[t] = "note_gap" => ENABLED NoteGap(t)
       /\ (op[t] = "sound_buzzer" /\ ValidArgs(args[t]))
             => IsPrefix(issued[t], ExpectedSound(seen[t].pin, args[t]))
       /\ op[t] = "play_harry_potter"
             => IsPrefix(issued[t], ExpectedMelody(seen[t].pin))

\* C7 witness: sound_buzzer and play_harry_potter are both suspended between
\* tone-on and tone-off on the same pin, and the pin carries the frequency and
\* duty cycle of the melody while the tone of sound_buzzer should be sounding
C7_Witness ==
    \E t, u \in Tasks :
       /\ t # u
       /\ op[t] = "sound_buzzer" /\ pc[t] = "sleep"
       /\ op[u] = "play_harry_potter" /\ pc[u] = "note_sleep" /\ note[u] = 2
       /\ gpio_pin[t] = gpio_pin[u]
       /\ args[t].duty_cycle = Num(10)
       /\ pwm[gpio_pin[t]].duty = 5
       /\ pwm[gpio_pin[t]].freq = 740

\* C10: from silent pins and with no hardware call failing, whenever every
\* invocation that was started has returned, the duty cycle last written to
\* each pin is 0.
C10_SilentWhenIdle ==
    (\A t \in Tasks : pc[t] \in {"idle", "done"}) =>
       \A p \in PinNames : pwm[p].duty = 0

\* C10 witness: two invocations that sounded a tone have both returned
C10_Witness ==
    /\ calls = 2
    /\ \A t \in Tasks : pc[t] = "done"
    /\ \E t, u \in Tasks :
          /\ op[t] = "sound_buzzer" /\ ret[t] = Success /\ args[t].duty_cycle = Num(10)
          /\ op[u] = "play_harry_potter" /\ Len(issued[u]) = 111
          /\ gpio_pin[t] = gpio_pin[u]
          /\ pwm[gpio_pin[t]].freq = 1

====
